---- MODULE Spec2Model ----
(***************************************************************************)
(* A model of wow_asset_tracker.py: the event-log decoders, the timeline   *)
(* merger (extract_daily_gold_history), the transaction aggregator         *)
(* (extract_crafting_orders, extract_transactions, the two crafting        *)
(* ledgers) and the pipeline of main().                                    *)
(*                                                                         *)
(* Representation.                                                         *)
(*  - A Python str is a sequence of atoms.  An atom is a real newline, the *)
(*    two-character literal backslash-n, a space, a comma, a dash, a word  *)
(*    (a run of other characters), an integer literal, or an integer       *)
(*    literal too large for datetime.fromtimestamp.                        *)
(*  - A UTC date 'YYYY-MM-DD' is the day index since the epoch.  strftime  *)
(*    is strictly increasing from day index to string for the years        *)
(*    1000..9999, so comparing and sorting the strings is comparing and    *)
(*    sorting the indexes.  dt.isoformat() is likewise the timestamp.      *)
(*  - A gold amount round(copper / 10000, 4) is kept as its count of       *)
(*    1/10000 gold, which is the copper integer; round(a + b, 4) of two    *)
(*    such amounts is then integer addition.                               *)
(*  - A dict is a sequence of [key, val] entries in insertion order with   *)
(*    unique keys, or a function where the order is never observed.        *)
(***************************************************************************)
EXTENDS Integers, Sequences, FiniteSets, TLC

(***************************************************************************)
(* Atoms and the str methods the decoders use                              *)
(***************************************************************************)
NL == [k |-> "nl", s |-> "", n |-> 0]
ESC == [k |-> "esc", s |-> "", n |-> 0]
SP == [k |-> "sp", s |-> "", n |-> 0]
COMMA == [k |-> "comma", s |-> "", n |-> 0]
DASH == [k |-> "dash", s |-> "", n |-> 0]
BIG == [k |-> "big", s |-> "", n |-> 0]
W(s) == [k |-> "w", s |-> s, n |-> 0]
N(n) == [k |-> "n", s |-> "", n |-> n]

IsSpace(a) == a.k \in {"sp", "nl"}

\* str.replace("\\n", "\n")
RECURSIVE ReplaceEsc(_)
ReplaceEsc(str) ==
    IF str = <<>> THEN <<>>
    ELSE <<IF Head(str) = ESC THEN NL ELSE Head(str)>> \o ReplaceEsc(Tail(str))

RECURSIVE LStrip(_)
LStrip(str) ==
    IF str # <<>> /\ IsSpace(Head(str)) THEN LStrip(Tail(str)) ELSE str

RECURSIVE RStrip(_)
RStrip(str) ==
    IF str # <<>> /\ IsSpace(str[Len(str)])
    THEN RStrip(SubSeq(str, 1, Len(str) - 1))
    ELSE str

\* str.strip()
Strip(str) == RStrip(LStrip(str))

\* str.split(sep) for a one-atom separator: always at least one part
RECURSIVE SplitAcc(_, _, _)
SplitAcc(str, sep, cur) ==
    IF str = <<>> THEN <<cur>>
    ELSE IF Head(str) = sep THEN <<cur>> \o SplitAcc(Tail(str), sep, <<>>)
    ELSE SplitAcc(Tail(str), sep, Append(cur, Head(str)))

Split(str, sep) == SplitAcc(str, sep, <<>>)

\* int(x) succeeds: optional surrounding whitespace around one integer literal
IntOk(field) == LET t == Strip(field) IN Len(t) = 1 /\ t[1].k \in {"n", "big"}
IntVal(field) == Strip(field)[1].n
\* datetime.fromtimestamp raises (OverflowError / OSError / ValueError)
TsOutOfRange(field) == Strip(field)[1].k = "big"

SecondsPerDay == 24 * 60 * 60
\* datetime.fromtimestamp(ts, tz=utc).strftime("%Y-%m-%d"), as a day index
DateOf(ts) == ts \div SecondsPerDay

GOLD_HEADER == <<W("minute"), COMMA, W("copper")>>
CSV_HEADER == <<W("type"), COMMA, W("amount"), COMMA, W("otherPlayer"), COMMA,
                W("player"), COMMA, W("time")>>

\* lines 156-157 / 344-345: normalise the escapes, strip, split into lines
LogLines(log_str) == Split(Strip(ReplaceEsc(log_str)), NL)

\* the header test with the comparison lost: any non-empty first line passes
HeaderAnyNonEmpty(lines, header) == lines # <<>> /\ Strip(lines[1]) # <<>>

\* lines 158 / 346: the header test
HeaderOk(lines, header) == lines # <<>> /\ Strip(lines[1]) = header

\* lines 162-173: the rows of a balance log, [raised, out]
RECURSIVE GoldRows(_, _)
GoldRows(lines, acc) ==
    IF lines = <<>> THEN [raised |-> FALSE, out |-> acc]
    ELSE LET parts == Split(Head(lines), COMMA) IN
         IF Len(parts) # 2 THEN GoldRows(Tail(lines), acc)
         ELSE IF ~(IntOk(parts[1]) /\ IntOk(parts[2])) THEN GoldRows(Tail(lines), acc)
         ELSE IF TsOutOfRange(parts[1]) THEN [raised |-> TRUE, out |-> <<>>]
         ELSE GoldRows(Tail(lines),
                       Append(acc, [date |-> DateOf(IntVal(parts[1]) * 60),
                                    copper |-> IntVal(parts[2])]))

parse_gold_log(log_str) ==
    LET lines == LogLines(log_str) IN
    IF ~HeaderOk(lines, GOLD_HEADER) THEN [raised |-> FALSE, out |-> <<>>]
    ELSE GoldRows(Tail(lines), <<>>)

\* lines 350-370: the rows of a transaction log, [raised, out]
RECURSIVE CsvRows(_, _)
CsvRows(lines, acc) ==
    IF lines = <<>> THEN [raised |-> FALSE, out |-> acc]
    ELSE LET parts == Split(Head(lines), COMMA) IN
         IF Len(parts) # 5 THEN CsvRows(Tail(lines), acc)
         ELSE IF ~(IntOk(parts[2]) /\ IntOk(parts[5])) THEN CsvRows(Tail(lines), acc)
         ELSE IF TsOutOfRange(parts[5]) THEN [raised |-> TRUE, out |-> <<>>]
         ELSE CsvRows(Tail(lines),
                      Append(acc, [date |-> DateOf(IntVal(parts[5])),
                                   datetime |-> IntVal(parts[5]),
                                   type |-> parts[1],
                                   other_player |-> parts[3],
                                   player |-> parts[4],
                                   amount_gold |-> IntVal(parts[2])]))

parse_csv_records(csv_str) ==
    LET lines == LogLines(csv_str) IN
    IF ~HeaderOk(lines, CSV_HEADER) THEN [raised |-> FALSE, out |-> <<>>]
    ELSE CsvRows(Tail(lines), <<>>)

(***************************************************************************)
(* Dicts in insertion order, keys of the Lua dump, parse_lua_file          *)
(***************************************************************************)
RECURSIVE DictHas(_, _)
DictHas(d, key) ==
    IF d = <<>> THEN FALSE
    ELSE IF Head(d).key = key THEN TRUE ELSE DictHas(Tail(d), key)

RECURSIVE DictGet(_, _, _)
DictGet(d, key, default) ==
    IF d = <<>> THEN default
    ELSE IF Head(d).key = key THEN Head(d).val ELSE DictGet(Tail(d), key, default)

\* d[key] = val: an existing key keeps its position, a new key goes last
DictSet(d, key, val) ==
    IF DictHas(d, key)
    THEN [i \in 1..Len(d) |-> IF d[i].key = key THEN [key |-> key, val |-> val] ELSE d[i]]
    ELSE Append(d, [key |-> key, val |-> val])

\* a key "<prefix>@<id>@internalData@<field>"; id is split on " - "
Key(prefix, id, field) == [prefix |-> prefix, id |-> id, field |-> field]
StrVal(str) == [isStr |-> TRUE, str |-> str, int |-> 0]
IntValue(n) == [isStr |-> FALSE, str |-> <<>>, int |-> n]

RECURSIVE AssignAll(_, _, _)
AssignAll(lines, wantStr, data) ==
    IF lines = <<>> THEN data
    ELSE AssignAll(Tail(lines), wantStr,
                   IF Head(lines).val.isStr = wantStr
                   THEN DictSet(data, Head(lines).key, Head(lines).val)
                   ELSE data)

\* lines 65-76: the integer lines first, then the string lines
ParseLuaContent(content) == AssignAll(content, TRUE, AssignAll(content, FALSE, <<>>))

\* parse_lua_file without the failure on a missing or unreadable path
parse_lua_file_unchecked(file, content) ==
    [raised |-> FALSE, data |-> ParseLuaContent(content)]

\* lines 54-58: the path must exist and be readable, else the call raises
parse_lua_file(file, content) ==
    IF file # "ok" THEN [raised |-> TRUE, data |-> <<>>]
    ELSE [raised |-> FALSE, data |-> ParseLuaContent(content)]

(***************************************************************************)
(* extract_daily_gold_history                                              *)
(***************************************************************************)
GoldUnit == 10000

\* int(copper_to_gold(v)): float division, then truncation toward zero
TruncGold(copper) ==
    IF copper >= 0 THEN copper \div GoldUnit ELSE -((-copper) \div GoldUnit)

WARBANK_LOG_KEY == Key("g", <<" ">>, "warbankGoldLog")
NoSource == [cls |-> "none", name |-> <<>>]

\* lines 211-215: which source a key feeds
GoldSource(key) ==
    IF key.prefix = "s" /\ key.field = "goldLog" THEN [cls |-> "char", name |-> key.id]
    ELSE IF key = WARBANK_LOG_KEY THEN [cls |-> "warbank", name |-> <<>>]
    ELSE NoSource

\* the date map keeping the first sample of a date instead of the last
RECURSIVE OverwriteKeepFirst(_, _)
OverwriteKeepFirst(date_map, entries) ==
    IF entries = <<>> THEN date_map
    ELSE OverwriteKeepFirst(date_map @@ (Head(entries).date :> Head(entries).copper),
                            Tail(entries))

\* lines 228-229: a later sample of a date overwrites the earlier one
RECURSIVE Overwrite(_, _)
Overwrite(date_map, entries) ==
    IF entries = <<>> THEN date_map
    ELSE Overwrite((Head(entries).date :> Head(entries).copper) @@ date_map,
                   Tail(entries))

\* lines 207-229: source_timeline, [raised, st]
RECURSIVE CollectTimelines(_, _)
CollectTimelines(entries, st) ==
    IF entries = <<>> THEN [raised |-> FALSE, st |-> st]
    ELSE LET e == Head(entries)
             source == GoldSource(e.key)
         IN IF ~e.val.isStr \/ source = NoSource THEN CollectTimelines(Tail(entries), st)
            ELSE LET p == parse_gold_log(e.val.str) IN
                 IF p.raised THEN [raised |-> TRUE, st |-> <<>>]
                 ELSE IF p.out = <<>> THEN CollectTimelines(Tail(entries), st)
                 ELSE CollectTimelines(Tail(entries),
                          DictSet(st, source, Overwrite(DictGet(st, source, <<>>), p.out)))

Min(S) == CHOOSE x \in S : \A y \in S : x <= y
Max(S) == CHOOSE x \in S : \A y \in S : x >= y

\* sorted(...) of a set of dates
RECURSIVE SortedSeq(_)
SortedSeq(S) == IF S = {} THEN <<>> ELSE <<Min(S)>> \o SortedSeq(S \ {Min(S)})

\* lines 232-235: sorted(date_map.items())
SortedItems(date_map) ==
    LET ds == SortedSeq(DOMAIN date_map)
    IN [i \in 1..Len(ds) |-> [date |-> ds[i], copper |-> date_map[ds[i]]]]

\* lines 238-240
AllDates(st) == SortedSeq(UNION {DOMAIN st[i].val : i \in 1..Len(st)})

\* the pointer walk with < for <=: the sample of the day itself is not taken
RECURSIVE AdvanceStrict(_, _, _, _)
AdvanceStrict(timeline, idx, cur, date_str) ==
    IF idx <= Len(timeline) /\ timeline[idx].date < date_str
    THEN AdvanceStrict(timeline, idx + 1, timeline[idx].copper, date_str)
    ELSE [idx |-> idx, cur |-> cur]

\* lines 254-258: move one source's pointer past every sample dated <= date_str
RECURSIVE Advance(_, _, _, _)
Advance(timeline, idx, cur, date_str) ==
    IF idx <= Len(timeline) /\ timeline[idx].date <= date_str
    THEN Advance(timeline, idx + 1, timeline[idx].copper, date_str)
    ELSE [idx |-> idx, cur |-> cur]

\* lines 251-258: the day-by-day walk; the current_vals of every date walked
RECURSIVE Walk(_, _, _, _, _)
Walk(dates, sorted, pointers, current_vals, acc) ==
    IF dates = <<>> THEN acc
    ELSE LET step == [i \in 1..Len(sorted) |->
                         Advance(sorted[i], pointers[i], current_vals[i], Head(dates))]
             ptrs == [i \in 1..Len(sorted) |-> step[i].idx]
             vals == [i \in 1..Len(sorted) |-> step[i].cur]
         IN Walk(Tail(dates), sorted, ptrs, vals, (Head(dates) :> vals) @@ acc)

\* conversions of a source's raw identifier to text
RECURSIVE JoinParts(_)
JoinParts(parts) ==
    IF parts = <<>> THEN ""
    ELSE IF Len(parts) = 1 THEN parts[1]
    ELSE parts[1] \o " - " \o JoinParts(Tail(parts))

\* lines 268-272
char_key(parts) ==
    IF Len(parts) = 3 THEN parts[1] \o "-" \o parts[3] ELSE JoinParts(parts)

RECURSIVE SumSeq(_)
SumSeq(q) == IF q = <<>> THEN 0 ELSE Head(q) + SumSeq(Tail(q))

\* lines 260-262
CharCopper(st, vals) ==
    SumSeq([i \in 1..Len(st) |-> IF st[i].key.cls = "char" THEN vals[i] ELSE 0])

\* line 263: current_vals.get("warbank", 0)
RECURSIVE WbCopper(_, _, _)
WbCopper(st, vals, i) ==
    IF i > Len(st) THEN 0
    ELSE IF st[i].key.cls = "warbank" THEN vals[i] ELSE WbCopper(st, vals, i + 1)

\* lines 274-278: the dict comprehension, a later equal key overwrites
RECURSIVE Characters(_, _, _, _)
Characters(st, vals, i, acc) ==
    IF i > Len(st) THEN acc
    ELSE Characters(st, vals, i + 1,
                    IF st[i].key.cls = "char"
                    THEN (char_key(st[i].key.name) :> TruncGold(vals[i])) @@ acc
                    ELSE acc)

\* line 264
TotalCopper(char_copper, wb_copper) == char_copper + wb_copper

\* the entry with total_gold added up from the two truncated fields
HistoryEntrySumOfFields(st, vals) ==
    [characters_gold |-> TruncGold(CharCopper(st, vals)),
     warbank_gold |-> TruncGold(WbCopper(st, vals, 1)),
     total_gold |-> TruncGold(CharCopper(st, vals)) + TruncGold(WbCopper(st, vals, 1)),
     characters |-> Characters(st, vals, 1, <<>>)]

\* lines 280-285
HistoryEntry(st, vals) ==
    [characters_gold |-> TruncGold(CharCopper(st, vals)),
     warbank_gold |-> TruncGold(WbCopper(st, vals, 1)),
     total_gold |-> TruncGold(TotalCopper(CharCopper(st, vals), WbCopper(st, vals, 1))),
     characters |-> Characters(st, vals, 1, <<>>)]

\* lines 238-251: the dates the walk visits
WalkDates(st) == AllDates(st)

\* lines 203-287: [raised, history, sources, current_vals]; sources and
\* current_vals expose the local source list and the per-date current_vals
extract_daily_gold_history(raw) ==
    LET c == CollectTimelines(raw, <<>>) IN
    IF c.raised
    THEN [raised |-> TRUE, history |-> <<>>, sources |-> <<>>, current_vals |-> <<>>]
    ELSE LET st == c.st
             sorted == [i \in 1..Len(st) |-> SortedItems(st[i].val)]
             zero == [i \in 1..Len(st) |-> 0]
             one == [i \in 1..Len(st) |-> 1]
             walk == Walk(WalkDates(st), sorted, one, zero, <<>>)
         IN [raised |-> FALSE,
             history |-> [d \in DOMAIN walk |-> HistoryEntry(st, walk[d])],
             sources |-> [i \in 1..Len(st) |-> st[i].key],
             current_vals |-> walk]

(***************************************************************************)
(* extract_crafting_orders                                                 *)
(***************************************************************************)
CRAFTING_ORDER == <<W("Crafting Order")>>

\* the crafting ledger reading the csvExpense keys as well
IsIncomeKeyAnyCsv(key) == key.prefix = "r" /\ key.field \in {"csvIncome", "csvExpense"}

\* line 379 / 435: the keys "r@<server>@internalData@csvIncome|csvExpense"
IsIncomeKey(key) == key.prefix = "r" /\ key.field = "csvIncome"
IsCsvKey(key) == key.prefix = "r" /\ key.field \in {"csvIncome", "csvExpense"}

\* line 393
CraftUid(rec) == <<rec.other_player, rec.player, rec.datetime>>

\* lines 390-401: the records of one source, [seen, records]
RECURSIVE CraftSource(_, _, _, _)
CraftSource(recs, crafter_server, seen, records) ==
    IF recs = <<>> THEN [seen |-> seen, records |-> records]
    ELSE LET rec == Head(recs) IN
         IF rec.type # CRAFTING_ORDER \/ CraftUid(rec) \in seen
         THEN CraftSource(Tail(recs), crafter_server, seen, records)
         ELSE CraftSource(Tail(recs), crafter_server, seen \cup {CraftUid(rec)},
                  Append(records,
                         [date |-> rec.date, datetime |-> rec.datetime,
                          type |-> rec.type, other_player |-> rec.other_player,
                          player |-> rec.player, amount_gold |-> rec.amount_gold,
                          crafter_server |-> crafter_server,
                          requester |-> rec.other_player, crafter |-> rec.player]))

\* lines 383-401, [raised, records]
RECURSIVE CraftCollect(_, _, _)
CraftCollect(entries, seen, records) ==
    IF entries = <<>> THEN [raised |-> FALSE, records |-> records]
    ELSE LET e == Head(entries) IN
         IF ~IsIncomeKey(e.key) \/ ~e.val.isStr THEN CraftCollect(Tail(entries), seen, records)
         ELSE LET p == parse_csv_records(e.val.str) IN
              IF p.raised THEN [raised |-> TRUE, records |-> <<>>]
              ELSE LET r == CraftSource(p.out, <<W(e.key.id[1])>>, seen, records)
                   IN CraftCollect(Tail(entries), r.seen, r.records)

\* line 403: list.sort(key=datetime) is stable
RECURSIVE InsertByDatetime(_, _)
InsertByDatetime(sorted, rec) ==
    IF sorted = <<>> THEN <<rec>>
    ELSE IF sorted[Len(sorted)].datetime <= rec.datetime THEN Append(sorted, rec)
    ELSE Append(InsertByDatetime(SubSeq(sorted, 1, Len(sorted) - 1), rec),
                sorted[Len(sorted)])

RECURSIVE SortByDatetime(_, _)
SortByDatetime(records, acc) ==
    IF records = <<>> THEN acc
    ELSE SortByDatetime(Tail(records), InsertByDatetime(acc, Head(records)))

extract_crafting_orders(raw) ==
    LET c == CraftCollect(raw, {}, <<>>) IN
    IF c.raised THEN c ELSE [raised |-> FALSE, records |-> SortByDatetime(c.records, <<>>)]

(***************************************************************************)
(* extract_transactions                                                    *)
(***************************************************************************)
\* line 451
TxUid(rec) == <<rec.date, rec.type, rec.other_player, rec.player, rec.datetime>>

Abs(x) == IF x < 0 THEN -x ELSE x

NewDay == [income_gold |-> 0, expense_gold |-> 0, by_type |-> <<>>]
NewType == [income_gold |-> 0, expense_gold |-> 0, count |-> 0]

\* bucketing by the sign of the amount instead of the channel
IsIncomeBySign(source_type, rec) == rec.amount_gold > 0

\* line 465: which bucket a record of this source goes to
IsIncome(source_type, rec) == source_type = "csvIncome"

\* one record that passed the seen test, with an expense added to the day's
\* total but not to its category's
AddRecordExpenseDayOnly(daily, source_type, rec) ==
    LET d == rec.date
        t == rec.type
        gold == Abs(rec.amount_gold)
        day == IF d \in DOMAIN daily THEN daily[d] ELSE NewDay
        typ == IF t \in DOMAIN day.by_type THEN day.by_type[t] ELSE NewType
        inc == IF IsIncome(source_type, rec) THEN gold ELSE 0
        exp == IF IsIncome(source_type, rec) THEN 0 ELSE gold
    IN (d :> [income_gold |-> day.income_gold + inc,
              expense_gold |-> day.expense_gold + exp,
              by_type |-> (t :> [income_gold |-> typ.income_gold + inc,
                                 expense_gold |-> typ.expense_gold,
                                 count |-> typ.count + 1]) @@ day.by_type]) @@ daily

\* lines 456-475: one record that passed the seen test
AddRecord(daily, source_type, rec) ==
    LET d == rec.date
        t == rec.type
        gold == Abs(rec.amount_gold)
        day == IF d \in DOMAIN daily THEN daily[d] ELSE NewDay
        typ == IF t \in DOMAIN day.by_type THEN day.by_type[t] ELSE NewType
        inc == IF IsIncome(source_type, rec) THEN gold ELSE 0
        exp == IF IsIncome(source_type, rec) THEN 0 ELSE gold
    IN (d :> [income_gold |-> day.income_gold + inc,
              expense_gold |-> day.expense_gold + exp,
              by_type |-> (t :> [income_gold |-> typ.income_gold + inc,
                                 expense_gold |-> typ.expense_gold + exp,
                                 count |-> typ.count + 1]) @@ day.by_type]) @@ daily

\* the records of one source without the seen test
RECURSIVE TxSourceNoDedup(_, _, _, _)
TxSourceNoDedup(recs, source_type, seen, daily) ==
    IF recs = <<>> THEN [seen |-> seen, daily |-> daily]
    ELSE TxSourceNoDedup(Tail(recs), source_type, seen \cup {TxUid(Head(recs))},
                         AddRecord(daily, source_type, Head(recs)))

\* the records of one source with a seen test that remembers only the
\* identity of the record before
RECURSIVE TxSourceLastSeenOnly(_, _, _, _)
TxSourceLastSeenOnly(recs, source_type, seen, daily) ==
    IF recs = <<>> THEN [seen |-> seen, daily |-> daily]
    ELSE IF TxUid(Head(recs)) \in seen
         THEN TxSourceLastSeenOnly(Tail(recs), source_type, seen, daily)
    ELSE TxSourceLastSeenOnly(Tail(recs), source_type, {TxUid(Head(recs))},
                              AddRecord(daily, source_type, Head(recs)))

\* lines 450-475: the records of one source, [seen, daily]
RECURSIVE TxSource(_, _, _, _)
TxSource(recs, source_type, seen, daily) ==
    IF recs = <<>> THEN [seen |-> seen, daily |-> daily]
    ELSE IF TxUid(Head(recs)) \in seen THEN TxSource(Tail(recs), source_type, seen, daily)
    ELSE TxSource(Tail(recs), source_type, seen \cup {TxUid(Head(recs))},
                  AddRecord(daily, source_type, Head(recs)))

\* lines 441-475, [raised, daily]
RECURSIVE TxCollect(_, _, _)
TxCollect(entries, seen, daily) ==
    IF entries = <<>> THEN [raised |-> FALSE, daily |-> daily]
    ELSE LET e == Head(entries) IN
         IF ~IsCsvKey(e.key) \/ ~e.val.isStr THEN TxCollect(Tail(entries), seen, daily)
         ELSE LET p == parse_csv_records(e.val.str) IN
              IF p.raised THEN [raised |-> TRUE, daily |-> <<>>]
              ELSE LET r == TxSource(p.out, e.key.field, seen, daily)
                   IN TxCollect(Tail(entries), r.seen, r.daily)

\* the net with the operands swapped
NetGoldSwapped(data) == data.expense_gold - data.income_gold

\* line 479
NetGold(data) == data.income_gold - data.expense_gold

\* lines 478-479: every day gets its net_gold
WithNet(daily) ==
    [d \in DOMAIN daily |-> [net_gold |-> NetGold(daily[d])] @@ daily[d]]

extract_transactions(raw) ==
    LET c == TxCollect(raw, {}, <<>>) IN
    IF c.raised THEN c ELSE [raised |-> FALSE, daily |-> WithNet(c.daily)]

(***************************************************************************)
(* The crafting ledgers                                                    *)
(***************************************************************************)
RECURSIVE SumGold(_)
SumGold(recs) == IF recs = <<>> THEN 0 ELSE Head(recs).amount_gold + SumGold(Tail(recs))

SelectDate(records, d) == SelectSeq(records, LAMBDA r : r.date = d)

\* lines 508-533: one ledger per date that has a record
save_crafting_by_date(records) ==
    [d \in {records[i].date : i \in 1..Len(records)} |->
        [date |-> d,
         total_orders |-> Len(SelectDate(records, d)),
         total_gold |-> SumGold(SelectDate(records, d)),
         orders |-> SelectDate(records, d)]]

UNKNOWN == <<W("_unknown")>>

RECURSIVE LastDash(_, _)
LastDash(str, i) == IF i = 0 THEN 0 ELSE IF str[i] = DASH THEN i ELSE LastDash(str, i - 1)

\* lines 545-548
parse_requester(requester) ==
    LET i == LastDash(requester, Len(requester)) IN
    IF i > 0
    THEN [server |-> Strip(SubSeq(requester, i + 1, Len(requester))),
          char |-> Strip(SubSeq(requester, 1, i - 1))]
    ELSE [server |-> UNKNOWN, char |-> Strip(requester)]

\* lines 571-574: the server a requester's ledger is filed under
ResolveServer(requester, recs) ==
    IF parse_requester(requester).server = UNKNOWN
    THEN recs[1].crafter_server
    ELSE parse_requester(requester).server

SelectRequester(records, q) == SelectSeq(records, LAMBDA r : r.requester = q)

\* lines 576-596: the ledger of one requester
RequesterLedger(requester, recs) ==
    [requester |-> requester,
     server |-> ResolveServer(requester, recs),
     character |-> parse_requester(requester).char,
     total_orders |-> Len(recs),
     total_gold |-> SumGold(recs),
     orders |-> recs]

\* lines 565-600: one ledger per requester.  The ledgers are kept by
\* requester; two requesters that resolve to one path share a file on disk.
save_crafting_by_requester(records) ==
    [q \in {records[i].requester : i \in 1..Len(records)} |->
        RequesterLedger(q, SelectRequester(records, q))]

(***************************************************************************)
(* main(): one action per stage                                            *)
(***************************************************************************)
VARIABLES pc, file, content, raw, history, sources, current_vals,
          crafting_records, daily_tx, gold_files, date_files, req_files,
          tx_files, chart_file

vars == <<pc, file, content, raw, history, sources, current_vals,
          crafting_records, daily_tx, gold_files, date_files, req_files,
          tx_files, chart_file>>

\* the state before main() runs on a given input file
Start(f, c) ==
    /\ pc = "start"
    /\ file = f
    /\ content = c
    /\ raw = <<>>
    /\ history = <<>>
    /\ sources = <<>>
    /\ current_vals = <<>>
    /\ crafting_records = <<>>
    /\ daily_tx = <<>>
    /\ gold_files = <<>>
    /\ date_files = <<>>
    /\ req_files = <<>>
    /\ tx_files = <<>>
    /\ chart_file = FALSE

\* line 802
ParseLuaFile ==
    /\ pc = "start"
    /\ LET r == parse_lua_file(file, content) IN
       /\ pc' = IF r.raised THEN "aborted" ELSE "parsed"
       /\ raw' = r.data
    /\ UNCHANGED <<file, content, history, sources, current_vals, crafting_records,
                   daily_tx, gold_files, date_files, req_files, tx_files, chart_file>>

\* line 806
ExtractDailyGoldHistory ==
    /\ pc = "parsed"
    /\ LET r == extract_daily_gold_history(raw) IN
       /\ pc' = IF r.raised THEN "aborted" ELSE "gold"
       /\ history' = r.history
       /\ sources' = r.sources
       /\ current_vals' = r.current_vals
    /\ UNCHANGED <<file, content, raw, crafting_records, daily_tx, gold_files,
                   date_files, req_files, tx_files, chart_file>>

\* line 807: save_gold_history writes one file per date of history
SaveGoldHistory ==
    /\ pc = "gold"
    /\ pc' = "gold_saved"
    /\ gold_files' = history
    /\ UNCHANGED <<file, content, raw, history, sources, current_vals,
                   crafting_records, daily_tx, date_files, req_files, tx_files,
                   chart_file>>

\* line 812
ExtractCraftingOrders ==
    /\ pc = "gold_saved"
    /\ LET r == extract_crafting_orders(raw) IN
       /\ pc' = IF r.raised THEN "aborted" ELSE "crafting"
       /\ crafting_records' = r.records
    /\ UNCHANGED <<file, content, raw, history, sources, current_vals, daily_tx,
                   gold_files, date_files, req_files, tx_files, chart_file>>

\* line 813
SaveCraftingByDate ==
    /\ pc = "crafting"
    /\ pc' = "crafting_by_date"
    /\ date_files' = save_crafting_by_date(crafting_records)
    /\ UNCHANGED <<file, content, raw, history, sources, current_vals,
                   crafting_records, daily_tx, gold_files, req_files, tx_files,
                   chart_file>>

\* line 814
SaveCraftingByRequester ==
    /\ pc = "crafting_by_date"
    /\ pc' = "crafting_saved"
    /\ req_files' = save_crafting_by_requester(crafting_records)
    /\ UNCHANGED <<file, content, raw, history, sources, current_vals,
                   crafting_records, daily_tx, gold_files, date_files, tx_files,
                   chart_file>>

\* line 820
ExtractTransactions ==
    /\ pc = "crafting_saved"
    /\ LET r == extract_transactions(raw) IN
       /\ pc' = IF r.raised THEN "aborted" ELSE "tx"
       /\ daily_tx' = r.daily
    /\ UNCHANGED <<file, content, raw, history, sources, current_vals,
                   crafting_records, gold_files, date_files, req_files, tx_files,
                   chart_file>>

\* line 821: save_transactions writes one file per date of daily_tx
SaveTransactions ==
    /\ pc = "tx"
    /\ pc' = "tx_saved"
    /\ tx_files' = daily_tx
    /\ UNCHANGED <<file, content, raw, history, sources, current_vals,
                   crafting_records, daily_tx, gold_files, date_files, req_files,
                   chart_file>>

\* lines 661-664, 730-734: no chart when there is no date at all
generate_chart(gold_history, daily_transactions) ==
    (DOMAIN gold_history \cup DOMAIN daily_transactions) # {}

\* lines 826-832: the chart, then the console summaries
GenerateChart ==
    /\ pc = "tx_saved"
    /\ pc' = "done"
    /\ chart_file' = generate_chart(history, daily_tx)
    /\ UNCHANGED <<file, content, raw, history, sources, current_vals,
                   crafting_records, daily_tx, gold_files, date_files, req_files,
                   tx_files>>

Next ==
    \/ ParseLuaFile
    \/ ExtractDailyGoldHistory
    \/ SaveGoldHistory
    \/ ExtractCraftingOrders
    \/ SaveCraftingByDate
    \/ SaveCraftingByRequester
    \/ ExtractTransactions
    \/ SaveTransactions
    \/ GenerateChart

(***************************************************************************)
(* Input files                                                             *)
(***************************************************************************)
MaxRows == 2
MaxDay == 2

\* all sequences over S of length at most n
RECURSIVE SeqsUpTo(_, _)
SeqsUpTo(S, n) ==
    IF n = 0 THEN {<<>>}
    ELSE LET shorter == SeqsUpTo(S, n - 1)
         IN shorter \cup {Append(q, x) : q \in shorter, x \in S}

RECURSIVE Concat(_)
Concat(strs) == IF strs = <<>> THEN <<>> ELSE Head(strs) \o Concat(Tail(strs))

\* a log as TSM writes it: the header, then one row per literal backslash-n
LogStr(header, rows) == header \o Concat([i \in 1..Len(rows) |-> <<ESC>> \o rows[i]])

GoldRow(minute, copper) == <<N(minute), COMMA, N(copper)>>
MinutesPerDay == 24 * 60

CharA == <<"A", "Horde", "R">>
CharA2 == <<"A", "Alliance", "R">>
CharB == <<"B-R">>

\* balance rows of the first character: every day, two balances, and on day 0
\* two more samples taken later in the day
RowsA ==
    {GoldRow(d * MinutesPerDay, c) : d \in 0..MaxDay, c \in {5000, 1000000}}
    \cup {GoldRow(7, c) : c \in {15000, 2500000}}
RowsB == {GoldRow(MinutesPerDay + 3, c) : c \in {5000, 19999}}
RowsW == {GoldRow(d * MinutesPerDay + 1, c) : d \in {0, MaxDay}, c \in {5000, -15000}}

Line(key, str) == [key |-> key, val |-> StrVal(str)]

GoldContents ==
    {<<Line(Key("s", CharA, "goldLog"), LogStr(GOLD_HEADER, a))>> \o b \o w :
        a \in SeqsUpTo(RowsA, MaxRows),
        b \in {<<>>} \cup {<<Line(Key("s", id, "goldLog"), LogStr(GOLD_HEADER, <<r>>))>> :
                              id \in {CharA2, CharB}, r \in RowsB},
        w \in {<<>>} \cup {<<Line(WARBANK_LOG_KEY, LogStr(GOLD_HEADER, <<r>>))>> :
                              r \in RowsW}}

InitGold == \E c \in GoldContents : Start("ok", c)
SpecGold == InitGold /\ [][Next]_vars

CsvRow(type, amount, other_player, player, time) ==
    <<W(type), COMMA, N(amount), COMMA>> \o other_player
        \o <<COMMA, W(player), COMMA, N(time)>>

Bob == <<W("Bob")>>
AnnS2 == <<W("Ann"), DASH, W("S2")>>

\* transaction rows: two rows of one identity with different amounts, a
\* requester with a server suffix on the next day, another category, and a
\* second order of the suffix-less requester
RowsTx ==
    {CsvRow("Crafting Order", 5000, Bob, "Me", 100),
     CsvRow("Crafting Order", -7000, Bob, "Me", 100),
     CsvRow("Crafting Order", 5000, AnnS2, "Me", SecondsPerDay + 100),
     CsvRow("Repair Bill", -7000, Bob, "Me", 100),
     CsvRow("Crafting Order", 12345, Bob, "Mo", 50)}

CsvKeys == {Key("r", <<"S1">>, "csvIncome"), Key("r", <<"S1">>, "csvExpense"),
            Key("r", <<"S2">>, "csvIncome")}

\* two sources, in either order of the dump; the second holds at most one row
KeyPairs == {kk \in CsvKeys \X CsvKeys : kk[1] # kk[2]}

TxContents ==
    {<<Line(kk[1], LogStr(CSV_HEADER, r1)), Line(kk[2], LogStr(CSV_HEADER, r2))>> :
        kk \in KeyPairs,
        r1 \in SeqsUpTo(RowsTx, MaxRows), r2 \in SeqsUpTo(RowsTx, 1)}

InitTx == \E c \in TxContents : Start("ok", c)
SpecTx == InitTx /\ [][Next]_vars

\* logs whose first line varies: the right header, the other schema's header,
\* a wrong word, a header padded with spaces, a space inside the header, or no
\* header line at all; after nothing, an escaped newline, or a blank line
HeaderLines(header, other) ==
    {<<header>>, <<other>>, <<<<W("minute"), COMMA, W("gold")>>>>,
     <<header \o <<SP>>>>, <<<<SP>> \o header>>,
     <<SubSeq(header, 1, 2) \o <<SP>> \o SubSeq(header, 3, Len(header))>>,
     <<>>}

Prefixes == {<<>>, <<ESC>>, <<NL, SP>>}

JoinEsc(lines) ==
    Concat([i \in 1..Len(lines) |-> IF i = 1 THEN lines[i] ELSE <<ESC>> \o lines[i]])

LogVariants(header, other, rows) ==
    {pre \o JoinEsc(h \o body) :
        pre \in Prefixes, h \in HeaderLines(header, other),
        body \in SeqsUpTo(rows, MaxRows)}

\* rows with a timestamp beyond the range of datetime.fromtimestamp
BigGoldRow == <<BIG, COMMA, N(7)>>
BigCsvRow == <<W("Crafting Order"), COMMA, N(5000), COMMA>> \o Bob
                \o <<COMMA, W("Me"), COMMA, BIG>>

GoodGold(id) ==
    Line(Key("s", id, "goldLog"), LogStr(GOLD_HEADER, <<GoldRow(MinutesPerDay, 19999)>>))
GoodCsv(field) ==
    Line(Key("r", <<"S1">>, field),
         LogStr(CSV_HEADER, <<CsvRow("Crafting Order", 12345, Bob, "Mo", 50)>>))

HeaderContents ==
    {<<Line(Key("s", CharA, "goldLog"), v), GoodGold(CharB), GoodCsv("csvIncome")>> :
        v \in LogVariants(GOLD_HEADER, CSV_HEADER,
                          {GoldRow(0, 5000), GoldRow(2 * MinutesPerDay, 1000000), BigGoldRow})}
    \cup
    {<<GoodGold(CharA), Line(Key("r", <<"S2">>, "csvIncome"), v), GoodCsv("csvExpense")>> :
        v \in LogVariants(CSV_HEADER, GOLD_HEADER,
                          {CsvRow("Crafting Order", 5000, Bob, "Me", 100),
                           CsvRow("Repair Bill", -7000, AnnS2, "Me", SecondsPerDay + 100),
                           BigCsvRow})}

InitHeader == \E c \in HeaderContents : Start("ok", c)
SpecHeader == InitHeader /\ [][Next]_vars

\* rows after a right header: well-formed rows, one with padded integers, rows
\* with a field too few, a non-integer field, a blank row, and a row whose
\* integer timestamp is beyond the range of datetime.fromtimestamp
GoldRowKinds ==
    {GoldRow(0, 5000), GoldRow(MinutesPerDay, 1000000),
     <<SP, N(2 * MinutesPerDay), SP, COMMA, N(-15000)>>,
     <<N(7)>>, <<W("x"), COMMA, N(5)>>, <<>>, BigGoldRow}

CsvRowKinds ==
    {CsvRow("Crafting Order", 5000, Bob, "Me", 100),
     CsvRow("Repair Bill", -7000, AnnS2, "Me", SecondsPerDay + 100),
     <<W("Crafting Order"), COMMA, N(5000), COMMA, W("Me"), COMMA, N(100)>>,
     <<W("Repair Bill"), COMMA, W("x"), COMMA>> \o Bob \o <<COMMA, W("Me"), COMMA, N(100)>>,
     <<W("Repair Bill"), COMMA, N(5), COMMA>> \o Bob \o <<COMMA, W("Me"), COMMA, W("1.5")>>,
     BigCsvRow}

RowsContents ==
    {<<Line(Key("s", CharA, "goldLog"), LogStr(GOLD_HEADER, rows)), GoodCsv("csvIncome")>> :
        rows \in SeqsUpTo(GoldRowKinds, MaxRows + 1)}
    \cup
    {<<GoodGold(CharA), Line(Key("r", <<"S1">>, "csvIncome"), LogStr(CSV_HEADER, rows))>> :
        rows \in SeqsUpTo(CsvRowKinds, MaxRows + 1)}

InitRows == \E c \in RowsContents : Start("ok", c)
SpecRows == InitRows /\ [][Next]_vars

\* whole dumps: a balance, a balance log, a transaction log, and a second
\* line for the balance-log key, which replaces the first
MainContents ==
    {<<[key |-> Key("s", CharA, "money"), val |-> IntValue(1234567)],
       Line(Key("s", CharA, "goldLog"), LogStr(GOLD_HEADER, <<GoldRow(0, 1)>>)),
       Line(Key("r", <<"S1">>, "csvIncome"), LogStr(CSV_HEADER, t)),
       Line(Key("s", CharA, "goldLog"), LogStr(GOLD_HEADER, g))>> :
        g \in SeqsUpTo({GoldRow(0, 1000000), GoldRow(2 * MinutesPerDay, 2500000)}, MaxRows),
        t \in SeqsUpTo({CsvRow("Crafting Order", 5000, Bob, "Me", 100), BigCsvRow}, MaxRows)}

\* main() is started on a path that is missing, unreadable, or a dump
Init ==
    \/ \E f \in {"missing", "unreadable"} : Start(f, <<>>)
    \/ \E c \in MainContents : Start("ok", c)
Spec == Init /\ [][Next]_vars

(***************************************************************************)
(* Properties of the timeline merger                                       *)
(***************************************************************************)
HistoryReady ==
    pc \in {"gold", "gold_saved", "crafting", "crafting_by_date", "crafting_saved",
            "tx", "tx_saved", "done"}

\* the entities that have a balance log in the dump, and their decoded samples
Entities == {GoldSource(raw[i].key) : i \in {j \in 1..Len(raw) : raw[j].val.isStr}}
                \ {NoSource}

EntitySamples(src) ==
    LET i == CHOOSE j \in 1..Len(raw) : raw[j].val.isStr /\ GoldSource(raw[j].key) = src
    IN parse_gold_log(raw[i].val.str).out

SampleDates ==
    UNION {{EntitySamples(e)[i].date : i \in 1..Len(EntitySamples(e))} : e \in Entities}

\* the value of the most recent sample dated at or before d (the last one in
\* log order among those of that date), or zero
RecentValue(samples, d) ==
    LET I == {i \in 1..Len(samples) : samples[i].date <= d} IN
    IF I = {} THEN 0
    ELSE LET best == CHOOSE i \in I : \A j \in I :
                        \/ samples[j].date < samples[i].date
                        \/ samples[j].date = samples[i].date /\ j <= i
         IN samples[best].copper

\* the minor-unit value the walk used for an entity on a date of the output
UsedValue(src, d) ==
    LET I == {i \in 1..Len(sources) : sources[i] = src} IN
    IF I = {} THEN 0 ELSE current_vals[d][CHOOSE i \in I : TRUE]

\* the sum of f[x] over the x in S
RECURSIVE SumOver(_, _)
SumOver(S, f) ==
    IF S = {} THEN 0 ELSE LET x == CHOOSE y \in S : TRUE IN f[x] + SumOver(S \ {x}, f)

CharEntities == {e \in Entities : e.cls = "char"}
Warbank == [cls |-> "warbank", name |-> <<>>]
UsedCharCopper(d) == SumOver(CharEntities, [e \in CharEntities |-> UsedValue(e, d)])
UsedWbCopper(d) == UsedValue(Warbank, d)

\* q is x / 10000 truncated toward zero
IsTrunc(q, x) ==
    /\ x >= 0 => (q * GoldUnit <= x /\ x < (q + 1) * GoldUnit)
    /\ x < 0 => (q * GoldUnit >= x /\ x > (q - 1) * GoldUnit)

\* C1 (as claimed): whenever an entity has a sample, the output holds every
\* calendar day from the earliest to the latest sample date, days without any
\* sample included.
C1_GapFree ==
    (HistoryReady /\ SampleDates # {})
        => DOMAIN history = Min(SampleDates)..Max(SampleDates)

\* C2: for every entity and every date of the output, the minor-unit value
\* used for the entity is that of its most recent sample dated at or before the
\* date, or zero when there is none; the reported subtotals are built from
\* these values.
C2_ForwardFill ==
    HistoryReady =>
        \A d \in DOMAIN history :
            /\ \A e \in Entities : UsedValue(e, d) = RecentValue(EntitySamples(e), d)
            /\ LET v == [e \in Entities |-> RecentValue(EntitySamples(e), d)] IN
               /\ IsTrunc(history[d].characters_gold, SumOver(CharEntities, v))
               /\ IsTrunc(history[d].warbank_gold,
                          IF Warbank \in Entities THEN v[Warbank] ELSE 0)

\* C2 witness: on some date of the output one entity carries forward a
\* non-zero value from an earlier date while another has no sample yet.
C2_Witness ==
    /\ HistoryReady
    /\ \E d \in DOMAIN history : \E e1, e2 \in Entities :
          /\ UsedValue(e1, d) # 0
          /\ \A i \in 1..Len(EntitySamples(e1)) : EntitySamples(e1)[i].date # d
          /\ EntitySamples(e2) # <<>>
          /\ \A i \in 1..Len(EntitySamples(e2)) : EntitySamples(e2)[i].date > d
          /\ UsedValue(e2, d) = 0

\* C3 (as claimed): on every date total_gold = characters_gold + warbank_gold.
C3_TotalIsSumOfFields ==
    HistoryReady =>
        \A d \in DOMAIN history :
            history[d].total_gold = history[d].characters_gold + history[d].warbank_gold

\* C3 (amended): each of the three fields is the truncation of its own
\* minor-unit sum, the total's minor-unit sum being the characters' plus the
\* warbank's; total_gold differs from characters_gold + warbank_gold by at
\* most one.
C3_TotalOfMinorUnits ==
    HistoryReady =>
        \A d \in DOMAIN history :
            /\ IsTrunc(history[d].characters_gold, UsedCharCopper(d))
            /\ IsTrunc(history[d].warbank_gold, UsedWbCopper(d))
            /\ IsTrunc(history[d].total_gold, UsedCharCopper(d) + UsedWbCopper(d))
            /\ history[d].total_gold - (history[d].characters_gold + history[d].warbank_gold)
                   \in {-1, 0, 1}

\* C3 witness: a date whose total_gold is not the sum of the two other fields.
C3_Witness ==
    /\ HistoryReady
    /\ \E d \in DOMAIN history :
          /\ UsedCharCopper(d) # 0
          /\ UsedWbCopper(d) # 0
          /\ history[d].total_gold # history[d].characters_gold + history[d].warbank_gold

(***************************************************************************)
(* Properties of the transaction aggregator                                *)
(***************************************************************************)
TxReady == pc \in {"tx", "tx_saved", "done"}

\* the transaction sources of a dump, in iteration order
CsvIndexes(r) == {i \in 1..Len(r) : IsCsvKey(r[i].key) /\ r[i].val.isStr}

\* the lines of a source string, and the string with one more line after line p
StrLines(str) == Split(ReplaceEsc(str), NL)

JoinLines(lines) ==
    Concat([i \in 1..Len(lines) |-> IF i = 1 THEN lines[i] ELSE <<NL>> \o lines[i]])

InsertLine(str, p, line) ==
    LET lines == StrLines(str)
    IN JoinLines(SubSeq(lines, 1, p) \o <<line>> \o SubSeq(lines, p + 1, Len(lines)))

WithCopy(r, i, p, line) ==
    [r EXCEPT ![i] = [key |-> r[i].key, val |-> StrVal(InsertLine(r[i].val.str, p, line))]]

\* the record a data line decodes to (none for a malformed line)
RecsOfLine(line) == parse_csv_records(CSV_HEADER \o <<NL>> \o line).out

\* every decoded record of the dump with its channel and its place
Occurrences(r) ==
    UNION {{[rec |-> RecsOfLine(StrLines(r[i].val.str)[j])[1],
             channel |-> r[i].key.field, src |-> i, line |-> j] :
               j \in {k \in 2..Len(StrLines(r[i].val.str)) :
                         RecsOfLine(StrLines(r[i].val.str)[k]) # <<>>}} :
           i \in CsvIndexes(r)}

Before(o1, o2) == o1.src < o2.src \/ (o1.src = o2.src /\ o1.line < o2.line)

\* the occurrences that are the first of their identity: the deduplicated set
FirstAmong(occ) ==
    {o \in occ : \A o2 \in occ : TxUid(o2.rec) = TxUid(o.rec) => ~Before(o2, o)}

FirstOccurrences(r) == FirstAmong(Occurrences(r))

\* a copy of the record of occurrence o, placed after line p of source i
\* (so that it becomes line p + 1)
Placements(r, occ) ==
    UNION {{[o |-> o, i |-> i, p |-> p] :
               o \in occ, p \in 1..Len(StrLines(r[i].val.str))} :
           i \in CsvIndexes(r)}

CopyLine(r, pl) == StrLines(r[pl.o.src].val.str)[pl.o.line]

WithPlacement(r, pl) == WithCopy(r, pl.i, pl.p, CopyLine(r, pl))

\* the copy is met after the first record f of its identity
MetLater(f, pl) == f.src < pl.i \/ (f.src = pl.i /\ f.line <= pl.p)

\* the copy has the amount and the channel of the first record f of its identity
SameAsFirst(r, f, pl) ==
    /\ Abs(f.rec.amount_gold) = Abs(pl.o.rec.amount_gold)
    /\ f.channel = r[pl.i].key.field

\* C4 (as claimed): adding a second copy of an already present record to the
\* same or another source string leaves the whole result unchanged.
C4_AnyCopyUnchanged ==
    pc = "tx" =>
        \A pl \in Placements(raw, Occurrences(raw)) :
            extract_transactions(WithPlacement(raw, pl)).daily = daily_tx

\* C4 (amended): the result is unchanged when the copy is met after a record
\* of its identity in iteration order, or has the amount and the channel of the
\* first record of its identity.
C4_LaterOrSameCopyUnchanged ==
    pc = "tx" =>
        LET occ == Occurrences(raw)
            first == FirstAmong(occ)
        IN \A pl \in Placements(raw, occ) :
              LET f == CHOOSE o \in first : TxUid(o.rec) = TxUid(pl.o.rec)
              IN (MetLater(f, pl) \/ SameAsFirst(raw, f, pl))
                    => extract_transactions(WithPlacement(raw, pl)).daily = daily_tx

\* C4 witness: a copy of a record was placed in another source string, ahead
\* of the original, with the original's channel, and the result is the same.
C4_Witness ==
    /\ pc = "tx"
    /\ LET occ == Occurrences(raw)
           first == FirstAmong(occ)
       IN \E pl \in Placements(raw, occ) :
             LET f == CHOOSE o \in first : TxUid(o.rec) = TxUid(pl.o.rec)
             IN /\ pl.i < pl.o.src
                /\ ~MetLater(f, pl)
                /\ SameAsFirst(raw, f, pl)
                /\ pl.o.rec.amount_gold # 0
                /\ extract_transactions(WithPlacement(raw, pl)).daily = daily_tx

ReqSaved == pc \in {"crafting_saved", "tx", "tx_saved", "done"}

HasDash(str) == LastDash(str, Len(str)) > 0

\* C5 (as claimed): in the per-requester ledger every record whose requester
\* has no server suffix is filed under the crafter_server of that same record.
C5_FiledUnderOwnCrafterServer ==
    ReqSaved =>
        \A q \in DOMAIN req_files :
            \A k \in 1..Len(req_files[q].orders) :
                ~HasDash(req_files[q].orders[k].requester)
                    => req_files[q].server = req_files[q].orders[k].crafter_server

\* the number of orders the crafting ledger of a date holds, and the
\* 'Crafting Order' count of the date's daily aggregate
LedgerOrders(d) == IF d \in DOMAIN date_files THEN date_files[d].total_orders ELSE 0

TxCraftCount(d) ==
    IF d \in DOMAIN daily_tx /\ CRAFTING_ORDER \in DOMAIN daily_tx[d].by_type
    THEN daily_tx[d].by_type[CRAFTING_ORDER].count
    ELSE 0

CraftOccurrences(occ, d) == {o \in occ : o.rec.type = CRAFTING_ORDER /\ o.rec.date = d}

C7_NetReconciliation ==
    TxReady =>
        /\ \A d \in DOMAIN daily_tx :
              /\ "net_gold" \in DOMAIN daily_tx[d]
              /\ daily_tx[d].net_gold + daily_tx[d].expense_gold = daily_tx[d].income_gold
        /\ \A o \in Occurrences(raw) : o.rec.date \in DOMAIN daily_tx

\* C7 witness: a date with income and a larger expense.
C7_Witness ==
    /\ TxReady
    /\ \E d \in DOMAIN daily_tx :
          /\ daily_tx[d].income_gold > 0
          /\ daily_tx[d].expense_gold > daily_tx[d].income_gold
          /\ daily_tx[d].net_gold < 0

AbsAmounts(S) == SumOver(S, [o \in S |-> Abs(o.rec.amount_gold)])

FirstLine(str) == StrLines(str)[1]

\* the first line that holds more than whitespace, without the whitespace
\* around it; the empty string when there is none
FirstNonBlankLine(str) ==
    LET lines == StrLines(str)
        J == {j \in 1..Len(lines) : Strip(lines[j]) # <<>>}
    IN IF J = {} THEN <<>> ELSE Strip(lines[Min(J)])

Drop(r, i) == SubSeq(r, 1, i - 1) \o SubSeq(r, i + 1, Len(r))

GoldIndexes(r) == {i \in 1..Len(r) : r[i].val.isStr /\ GoldSource(r[i].key) # NoSource}

Empty == [raised |-> FALSE, out |-> <<>>]

\* the stages read the dump as if source i were not in it
ContributesNothing(i) ==
    /\ HistoryReady =>
          /\ history = extract_daily_gold_history(Drop(raw, i)).history
          /\ sources = extract_daily_gold_history(Drop(raw, i)).sources
    /\ ReqSaved => crafting_records = extract_crafting_orders(Drop(raw, i)).records
    /\ TxReady => daily_tx = extract_transactions(Drop(raw, i)).daily

\* C8 (as claimed): a log whose first line is not exactly the header decodes
\* to the empty sequence without an exception, and contributes nothing.
C8_FirstLineNotHeader ==
    /\ \A i \in GoldIndexes(raw) :
          FirstLine(raw[i].val.str) # GOLD_HEADER
              => (parse_gold_log(raw[i].val.str) = Empty /\ ContributesNothing(i))
    /\ \A i \in CsvIndexes(raw) :
          FirstLine(raw[i].val.str) # CSV_HEADER
              => (parse_csv_records(raw[i].val.str) = Empty /\ ContributesNothing(i))

\* C8 (amended): a log whose first non-blank line, without the whitespace
\* around it, is not the header decodes to the empty sequence without an
\* exception, and contributes nothing.
C8_HeaderMismatchSafety ==
    /\ \A i \in GoldIndexes(raw) :
          FirstNonBlankLine(raw[i].val.str) # GOLD_HEADER
              => (parse_gold_log(raw[i].val.str) = Empty /\ ContributesNothing(i))
    /\ \A i \in CsvIndexes(raw) :
          FirstNonBlankLine(raw[i].val.str) # CSV_HEADER
              => (parse_csv_records(raw[i].val.str) = Empty /\ ContributesNothing(i))

\* C8 witness: a run went through every stage on a dump with a balance log
\* that has rows, one of them out of the timestamp range, and no header.
C8_Witness ==
    /\ pc = "done"
    /\ history # <<>>
    /\ \E i \in GoldIndexes(raw) :
          /\ FirstNonBlankLine(raw[i].val.str) = <<BIG, COMMA, N(7)>>
          /\ Len(StrLines(raw[i].val.str)) > 1
          /\ parse_gold_log(raw[i].val.str) = Empty

AnyOutput ==
    \/ gold_files # <<>>
    \/ date_files # <<>>
    \/ req_files # <<>>
    \/ tx_files # <<>>
    \/ chart_file

AnyStageRan ==
    \/ history # <<>>
    \/ sources # <<>>
    \/ crafting_records # <<>>
    \/ daily_tx # <<>>

\* C10: when the input file is missing or unreadable the run stops at
\* parse_lua_file, no stage runs and nothing is written; in every run a file is
\* written only after the input was read.
C10_FatalInputError ==
    /\ file # "ok" => (pc \in {"start", "aborted"} /\ raw = <<>>
                          /\ ~AnyStageRan /\ ~AnyOutput)
    /\ AnyOutput => (file = "ok" /\ pc \notin {"start", "parsed"})

\* C10 witness: a run on a missing path has aborted without any output.
C10_Witness == pc = "aborted" /\ file = "missing" /\ ~AnyOutput /\ ~AnyStageRan

(***************************************************************************)
(* Properties of the decoders' row handling                                *)
(***************************************************************************)
\* the data rows of a log: the lines after the header line
DataRows(str) == Tail(StrLines(str))

\* a row with the schema's field count and integer numeric fields
WellFormedGold(row) ==
    LET parts == Split(row, COMMA)
    IN Len(parts) = 2 /\ IntOk(parts[1]) /\ IntOk(parts[2])

WellFormedCsv(row) ==
    LET parts == Split(row, COMMA)
    IN Len(parts) = 5 /\ IntOk(parts[2]) /\ IntOk(parts[5])

\* the record of one well-formed row
GoldRecord(row) ==
    LET parts == Split(row, COMMA)
    IN [date |-> DateOf(IntVal(parts[1]) * 60), copper |-> IntVal(parts[2])]

CsvRecord(row) ==
    LET parts == Split(row, COMMA)
    IN [date |-> DateOf(IntVal(parts[5])), datetime |-> IntVal(parts[5]),
        type |-> parts[1], other_player |-> parts[3], player |-> parts[4],
        amount_gold |-> IntVal(parts[2])]

\* the records of the well-formed rows of a log, in their order
WellFormedGoldRecords(str) ==
    LET rows == SelectSeq(DataRows(str), WellFormedGold)
    IN [k \in 1..Len(rows) |-> GoldRecord(rows[k])]

WellFormedCsvRecords(str) ==
    LET rows == SelectSeq(DataRows(str), WellFormedCsv)
    IN [k \in 1..Len(rows) |-> CsvRecord(rows[k])]

\* C11 (as claimed): for a log with a correct header the decoder returns,
\* without aborting, exactly the records of the well-formed rows (right field
\* count, integer numeric fields) in their original order.
C11_MalformedRowSkip ==
    /\ \A i \in GoldIndexes(raw) :
          FirstLine(raw[i].val.str) = GOLD_HEADER
              => parse_gold_log(raw[i].val.str)
                    = [raised |-> FALSE, out |-> WellFormedGoldRecords(raw[i].val.str)]
    /\ \A i \in CsvIndexes(raw) :
          FirstLine(raw[i].val.str) = CSV_HEADER
              => parse_csv_records(raw[i].val.str)
                    = [raised |-> FALSE, out |-> WellFormedCsvRecords(raw[i].val.str)]

(***************************************************************************)
(* Properties of the per-entity date map                                   *)
(***************************************************************************)
\* the minute field of each decoded sample of an entity, in log order
EntityMinutes(src) ==
    LET i == CHOOSE j \in 1..Len(raw) : raw[j].val.isStr /\ GoldSource(raw[j].key) = src
        rows == SelectSeq(DataRows(raw[i].val.str), WellFormedGold)
    IN [k \in 1..Len(rows) |-> IntVal(Split(rows[k], COMMA)[1])]

\* the positions of an entity's samples of date d, and of those dated in (d, d2]
SamplesOn(samples, d) == {i \in 1..Len(samples) : samples[i].date = d}
SamplesWithin(samples, d, d2) ==
    {i \in 1..Len(samples) : d < samples[i].date /\ samples[i].date <= d2}

\* C12: for every entity and every date on which it has samples, the date is
\* in the output and the value used for the entity on it is that of the last
\* such sample in log order; the same value is carried to every later date of
\* the output up to the entity's next sample date.
C12_SameDateLastWins ==
    HistoryReady =>
        \A e \in Entities :
            LET s == EntitySamples(e) IN
            \A d \in {s[i].date : i \in 1..Len(s)} :
                LET last == s[Max(SamplesOn(s, d))].copper IN
                /\ d \in DOMAIN history
                /\ UsedValue(e, d) = last
                /\ \A d2 \in DOMAIN history :
                      (d2 > d /\ SamplesWithin(s, d, d2) = {}) => UsedValue(e, d2) = last

\* C12 witness: an entity has two samples of one date, the later in log order
\* with the smaller minute and another value; the later one's value is used on
\* that date and carried to a later date of the output.
C12_Witness ==
    /\ HistoryReady
    /\ \E e \in Entities :
          LET s == EntitySamples(e)
              m == EntityMinutes(e)
          IN /\ Len(m) = Len(s)
             /\ \E i, j \in 1..Len(s) :
                   /\ i < j
                   /\ s[i].date = s[j].date
                   /\ m[i] > m[j]
                   /\ s[i].copper # s[j].copper
                   /\ j = Max(SamplesOn(s, s[j].date))
                   /\ UsedValue(e, s[j].date) = s[j].copper
                   /\ \E d2 \in DOMAIN history :
                         /\ d2 > s[j].date
                         /\ SamplesWithin(s, s[j].date, d2) = {}
                         /\ UsedValue(e, d2) = s[j].copper

(***************************************************************************)
(* Order of the sources and of the rows of a source                        *)
(***************************************************************************)
\* the permutations of 1..n
Perms(n) == {f \in [1..n -> 1..n] : \A a, b \in 1..n : f[a] = f[b] => a = b}

\* the number of data rows of entry i whose order is changed
RowCount(r, i) == IF i \in CsvIndexes(r) THEN Len(StrLines(r[i].val.str)) - 1 ELSE 0

\* a log string with its data rows in the order p, the header line first
RowsPermuted(str, p) ==
    LET lines == StrLines(str)
    IN JoinLines(<<lines[1]>> \o [k \in 1..Len(p) |-> lines[p[k] + 1]])

EntryPermuted(r, i, p) ==
    IF i \in CsvIndexes(r)
    THEN [key |-> r[i].key, val |-> StrVal(RowsPermuted(r[i].val.str, p))]
    ELSE r[i]

\* one order of the rows for every entry of the dump
RowOrders(r) ==
    {f \in [1..Len(r) -> UNION {Perms(RowCount(r, i)) : i \in 1..Len(r)}] :
        \A i \in 1..Len(r) : f[i] \in Perms(RowCount(r, i))}

\* the dump with its entries in another order and the rows of every
\* transaction source in another order
Reorderings(r) ==
    {[i \in 1..Len(r) |-> EntryPermuted(r, ps[i], pr[ps[i]])] :
        ps \in Perms(Len(r)), pr \in RowOrders(r)}

\* all records of one identity have one absolute amount and one channel
Agreeing(occ) ==
    \A o1, o2 \in occ :
        TxUid(o1.rec) = TxUid(o2.rec)
            => /\ Abs(o1.rec.amount_gold) = Abs(o2.rec.amount_gold)
               /\ o1.channel = o2.channel

\* C13 (as claimed): the result of extract_transactions is the same for every
\* order of the source keys and every order of the rows inside a source.
C13_OrderIndependent ==
    pc = "tx" =>
        \A q \in Reorderings(raw) : extract_transactions(q).daily = daily_tx

\* C13 (amended): when all records that share an identity have the same
\* absolute amount and the same channel, the result of extract_transactions is
\* the same for every order of the source keys and of the rows inside a source.
C13_OrderIndependentWhenAgreeing ==
    (pc = "tx" /\ Agreeing(Occurrences(raw))) =>
        \A q \in Reorderings(raw) : extract_transactions(q).daily = daily_tx

\* C13 witness: two sources hold a record of one identity with the same amount
\* and channel, a source holds a record of another identity, and the dump with
\* its sources swapped and its rows reversed gives the same result.
C13_Witness ==
    /\ pc = "tx"
    /\ LET occ == Occurrences(raw) IN
       /\ Agreeing(occ)
       /\ \E o1, o2, o3 \in occ :
             /\ o1.src # o2.src
             /\ TxUid(o1.rec) = TxUid(o2.rec)
             /\ o1.rec.amount_gold # 0
             /\ o3.src = o1.src
             /\ TxUid(o3.rec) # TxUid(o1.rec)
             /\ o3.rec.date = o1.rec.date
       /\ \E q \in Reorderings(raw) :
             /\ q[1].key # raw[1].key
             /\ \E i \in 1..Len(q) : \E j \in 1..Len(raw) :
                   q[i].key = raw[j].key /\ q[i].val # raw[j].val
             /\ extract_transactions(q).daily = daily_tx

(***************************************************************************)
(* Properties of the per-character breakdown                               *)
(***************************************************************************)
\* the character entities whose balance log holds at least one sample
CharSampled == {e \in CharEntities : EntitySamples(e) # <<>>}

\* the entity whose value an entry of the breakdown holds: the last one in
\* the order of the sources among those that are given the key
EntityBehind(key) ==
    sources[Max({i \in 1..Len(sources) :
                    sources[i].cls = "char" /\ char_key(sources[i].name) = key})]

\* the minor-unit values behind the entries of the breakdown of a date, summed
BreakdownCopper(d) ==
    LET keys == DOMAIN history[d].characters
    IN SumOver(keys, [k \in keys |-> UsedValue(EntityBehind(k), d)])

\* C14 (as claimed): on every date of the output the breakdown has exactly
\* one entry per character entity with a balance log, holding the truncation
\* of the entity's value on that date (zero before its first sample); no two
\* character entities share a key; the minor-unit values behind the entries
\* sum to the minor-unit value behind characters_gold.
C14_BreakdownComplete ==
    HistoryReady =>
        \A d \in DOMAIN history :
            LET ch == history[d].characters IN
            /\ Cardinality(DOMAIN ch) = Cardinality(CharSampled)
            /\ \A e \in CharSampled :
                  /\ char_key(e.name) \in DOMAIN ch
                  /\ ch[char_key(e.name)] = TruncGold(UsedValue(e, d))
            /\ \A e1, e2 \in CharSampled : e1 # e2 => char_key(e1.name) # char_key(e2.name)
            /\ BreakdownCopper(d) = UsedCharCopper(d)
            /\ IsTrunc(history[d].characters_gold, BreakdownCopper(d))

(***************************************************************************)
(* Properties of the per-category breakdown                                *)
(***************************************************************************)
\* the identities of the decoded records of date d, and those of category t
IdentitiesOn(occ, d) == {TxUid(o.rec) : o \in {x \in occ : x.rec.date = d}}
IdentitiesOf(occ, d, t) ==
    {TxUid(o.rec) : o \in {x \in occ : x.rec.date = d /\ x.rec.type = t}}

\* C15: for every date of the result the per-category income totals sum to
\* the date's income total, the per-category expense totals to its expense
\* total, and the per-category counts to the number of distinct record
\* identities of the date; the count of a category is the number of distinct
\* identities of that category on the date.
C15_CategoryBreakdown ==
    TxReady =>
        LET occ == Occurrences(raw) IN
        \A d \in DOMAIN daily_tx :
            LET by_type == daily_tx[d].by_type
                types == DOMAIN by_type
            IN /\ SumOver(types, [t \in types |-> by_type[t].income_gold])
                     = daily_tx[d].income_gold
               /\ SumOver(types, [t \in types |-> by_type[t].expense_gold])
                     = daily_tx[d].expense_gold
               /\ SumOver(types, [t \in types |-> by_type[t].count])
                     = Cardinality(IdentitiesOn(occ, d))
               /\ \A t \in types :
                     by_type[t].count = Cardinality(IdentitiesOf(occ, d, t))

\* C15 witness: a date with two categories, income and expense, and a record
\* that was met twice and counted once.
C15_Witness ==
    /\ TxReady
    /\ \E d \in DOMAIN daily_tx :
          LET by_type == daily_tx[d].by_type
              types == DOMAIN by_type
              met == {o \in Occurrences(raw) : o.rec.date = d}
          IN /\ Cardinality(types) = 2
             /\ daily_tx[d].income_gold > 0
             /\ daily_tx[d].expense_gold > 0
             /\ SumOver(types, [t \in types |-> by_type[t].count]) < Cardinality(met)

====
